---------------------------- MODULE Spec2Model ----------------------------
(***************************************************************************)
(* Model of the LTA DataMall MCP server (src/src/index.ts).                *)
(*                                                                         *)
(* The server registers two request handlers: list-tools, which returns    *)
(* a static catalog, and call-tool, which switches on the tool name,       *)
(* issues one axios.get and wraps the outcome.  Several call-tool          *)
(* requests may be in flight at once: a handler runs up to its `await`,    *)
(* and resumes when axios settles the promise.                             *)
(*                                                                         *)
(* JavaScript values are modelled as follows.                              *)
(*   - argument values are strings; JsUndefined and JsNull are the two     *)
(*     sentinels standing for `undefined` and `null`;                      *)
(*   - an object with string keys is a function whose domain is its set    *)
(*     of own keys, so `"k" \in DOMAIN o` is `"k" in o`;                   *)
(*   - a JSON document (the upstream body) is a tagged record, see Str,    *)
(*     Arr, Obj, Null, Undef.                                              *)
(***************************************************************************)
EXTENDS Naturals, Integers, Sequences, FiniteSets, Bags, TLC

VARIABLES
    calls,      \* the call-tool requests received so far, each with how far its
                \* handler got: a bag, since nothing in the server tells two
                \* requests with the same content apart
    listed,     \* the response to the latest list-tools request, <<>> before the first
    env         \* process.env, read-only after start

vars == <<calls, listed, env>>

-----------------------------------------------------------------------------
(* Bounds of the model *)

\* number of call-tool requests received, all of which may be in flight together
MaxCalls == 2

-----------------------------------------------------------------------------
(* JavaScript values *)

JsUndefined == "<undefined>"
JsNull == "<null>"

\* ToBoolean on the argument values of the model: undefined, null and the
\* empty string are falsy, every other string is truthy
Truthy(v) == v \notin {JsUndefined, JsNull, ""}

EmptyObject == [k \in {} |-> JsUndefined]

\* o.k : the value of an own key, undefined for a key the object lacks
Get(o, k) == IF k \in DOMAIN o THEN o[k] ELSE JsUndefined

\* { ...a, ...b } for two objects (b wins)
Spread(a, b) == [k \in (DOMAIN a) \cup (DOMAIN b) |-> IF k \in DOMAIN b THEN b[k] ELSE a[k]]

\* request.params.arguments is optional in the protocol: either it is not
\* there (defined = FALSE) or it is an object
NoArguments == [defined |-> FALSE, props |-> EmptyObject]
Arguments(o) == [defined |-> TRUE, props |-> o]

-----------------------------------------------------------------------------
(* JSON documents *)

Str(s) == [t |-> "str", s |-> s]
Arr(items) == [t |-> "arr", items |-> items]
Obj(members) == [t |-> "obj", members |-> members]
Member(k, v) == [k |-> k, v |-> v]
Null == [t |-> "null"]
Undef == [t |-> "undefined"]

RECURSIVE Spaces(_)
Spaces(n) == IF n = 0 THEN "" ELSE " " \o Spaces(n - 1)

\* JSON.stringify(v, null, 2) at nesting depth `depth`.  The strings of the
\* model hold no character that JSON escapes.
RECURSIVE Stringify(_, _)
RECURSIVE StringifyItems(_, _, _)
RECURSIVE StringifyMembers(_, _, _)
StringifyItems(items, i, depth) ==
    IF i > Len(items) THEN ""
    ELSE Spaces(2 * depth) \o Stringify(items[i], depth)
         \o (IF i < Len(items) THEN ",\n" ELSE "\n")
         \o StringifyItems(items, i + 1, depth)
StringifyMembers(members, i, depth) ==
    IF i > Len(members) THEN ""
    ELSE Spaces(2 * depth) \o "\"" \o members[i].k \o "\": "
         \o Stringify(members[i].v, depth)
         \o (IF i < Len(members) THEN ",\n" ELSE "\n")
         \o StringifyMembers(members, i + 1, depth)
Stringify(v, depth) ==
    CASE v.t = "str" -> "\"" \o v.s \o "\""
      [] v.t = "null" -> "null"
      [] v.t = "arr" ->
            IF Len(v.items) = 0 THEN "[]"
            ELSE "[\n" \o StringifyItems(v.items, 1, depth + 1) \o Spaces(2 * depth) \o "]"
      [] v.t = "obj" ->
            IF Len(v.members) = 0 THEN "{}"
            ELSE "{\n" \o StringifyMembers(v.members, 1, depth + 1) \o Spaces(2 * depth) \o "}"

JSONstringify(v) == Stringify(v, 0)

\* data?.Message : the member of an object, undefined when data is not an
\* object, is null or undefined, or has no such member
MemberOf(data, key) ==
    IF data.t = "obj" /\ \E i \in 1..Len(data.members) : data.members[i].k = key
    THEN data.members[CHOOSE i \in 1..Len(data.members) : data.members[i].k = key].v
    ELSE Undef

\* a ?? b
Coalesce(a, b) == IF a.t \in {"undefined", "null"} THEN b ELSE a

\* `${v}` : the string a template literal makes of a value
TemplateString(v) ==
    CASE v.t = "str" -> v.s
      [] v.t = "null" -> "null"
      [] v.t = "undefined" -> "undefined"
      [] v.t = "obj" -> "[object Object]"


-----------------------------------------------------------------------------
(* The tool catalog: the list-tools handler.  The human descriptions of   *)
(* the tools and of their properties are left out.                         *)

\* the catalog with the line added last left out
TrainLinesOutdated == <<"CCL", "CEL", "CGL", "DTL", "EWL", "NEL", "NSL", "BPL", "SLRT", "PLRT">>

TrainLines == <<"CCL", "CEL", "CGL", "DTL", "EWL", "NEL", "NSL", "BPL", "SLRT", "PLRT", "TEL">>

TrainLineSchema ==
    [type |-> "object",
     properties |-> [trainLine |-> [type |-> "string", enum |-> TrainLines]],
     required |-> <<"trainLine">>]

\* inputSchema of the four tools that take no parameter: no `required` key
NoParameterSchema == [type |-> "object", properties |-> EmptyObject]

BusArrivalSchema ==
    [type |-> "object",
     properties |-> [busStopCode |-> [type |-> "string"], serviceNo |-> [type |-> "string"]],
     required |-> <<"busStopCode">>]

ToolCatalog ==
    << [name |-> "bus_arrival", inputSchema |-> BusArrivalSchema],
       [name |-> "station_crowding", inputSchema |-> TrainLineSchema],
       [name |-> "train_alerts", inputSchema |-> NoParameterSchema],
       [name |-> "carpark_availability", inputSchema |-> NoParameterSchema],
       [name |-> "travel_times", inputSchema |-> NoParameterSchema],
       [name |-> "traffic_incidents", inputSchema |-> NoParameterSchema],
       [name |-> "station_crowd_forecast", inputSchema |-> TrainLineSchema] >>

ListToolsResult == [tools |-> ToolCatalog]

-----------------------------------------------------------------------------
(* The call-tool handler, piece by piece *)

\* the case labels of the switch
CaseLabels ==
    {"bus_arrival", "station_crowding", "train_alerts", "carpark_availability",
     "travel_times", "traffic_incidents", "station_crowd_forecast"}

\* the cases that start by destructuring request.params.arguments
Destructures(name) == name \in {"bus_arrival", "station_crowding", "station_crowd_forecast"}

BaseUrl == "https://datamall2.mytransport.sg/ltaodataservice"

Endpoint(name) ==
    CASE name = "bus_arrival" -> BaseUrl \o "/v3/BusArrival"
      [] name = "station_crowding" -> BaseUrl \o "/PCDRealTime"
      [] name = "train_alerts" -> BaseUrl \o "/TrainServiceAlerts"
      [] name = "carpark_availability" -> BaseUrl \o "/CarParkAvailabilityv2"
      [] name = "travel_times" -> BaseUrl \o "/EstTravelTimes"
      [] name = "traffic_incidents" -> BaseUrl \o "/TrafficIncidents"
      [] name = "station_crowd_forecast" -> BaseUrl \o "/PCDForecast"

Headers == [AccountKey |-> Get(env, "LTA_API_KEY"), accept |-> "application/json"]

\* the parameters with ServiceNo always set
BusArrivalParamsAlways(busStopCode, serviceNo) ==
    [BusStopCode |-> busStopCode, ServiceNo |-> serviceNo]

\* { BusStopCode: busStopCode, ...(serviceNo && { ServiceNo: serviceNo }) }
\* spreading a falsy value adds no key
BusArrivalParams(busStopCode, serviceNo) ==
    Spread([BusStopCode |-> busStopCode],
           IF Truthy(serviceNo) THEN [ServiceNo |-> serviceNo] ELSE EmptyObject)

TrainLineParams(trainLine) == [TrainLine |-> trainLine]

\* a configuration that forwards whatever arguments came
AxiosConfigForwardAll(name, props) == [params |-> props, headers |-> Headers]

\* the second argument of axios.get; the no-parameter tools pass no `params`
AxiosConfig(name, props) ==
    CASE name = "bus_arrival" ->
            [params |-> BusArrivalParams(Get(props, "busStopCode"), Get(props, "serviceNo")),
             headers |-> Headers]
      [] name \in {"station_crowding", "station_crowd_forecast"} ->
            [params |-> TrainLineParams(Get(props, "trainLine")), headers |-> Headers]
      [] OTHER -> [headers |-> Headers]

AxiosGet(name, props) == [method |-> "GET", url |-> Endpoint(name), config |-> AxiosConfig(name, props)]

\* the success result with the flag set to false instead of left out
SuccessResultWithFlag(response) ==
    [content |-> << [type |-> "text", text |-> JSONstringify(response.data)] >>,
     isError |-> FALSE]

\* return { content: [{ type: "text", text: JSON.stringify(response.data, null, 2) }] }
SuccessResult(response) ==
    [content |-> << [type |-> "text", text |-> JSONstringify(response.data)] >>]

\* the message of the transport alone
ErrorMessageTransportOnly(error) == Str(error.message)

\* error.response?.data?.Message ?? error.message
ErrorMessage(error) ==
    Coalesce(IF "response" \in DOMAIN error
             THEN MemberOf(error.response.data, "Message")
             ELSE Undef,
             Str(error.message))

\* return { content: [{ type: "text", text: `LTA API error: ...` }], isError: true }
ErrorResult(error) ==
    [content |-> << [type |-> "text",
                     text |-> "LTA API error: " \o TemplateString(ErrorMessage(error))] >>,
     isError |-> TRUE]

\* a catch block that takes every error for an HTTP failure
IsAxiosErrorAlways(error) == TRUE

IsAxiosError(error) == error.isAxiosError

\* the exception without the interpolated name
UnknownToolErrorNoName(name) ==
    [name |-> "McpError", code |-> "MethodNotFound", message |-> "Unknown tool"]

\* new McpError(ErrorCode.MethodNotFound, `Unknown tool: ${request.params.name}`)
UnknownToolError(name) ==
    [name |-> "McpError", code |-> "MethodNotFound", message |-> "Unknown tool: " \o name]

\* destructuring `undefined` throws
DestructureError == [name |-> "TypeError", message |-> "Cannot destructure 'request.params.arguments' as it is undefined."]

-----------------------------------------------------------------------------
(* State of one call-tool request *)

\* the handler up to its first await, or to the throw that ends it
Started(name, args) ==
    IF name \notin CaseLabels
    THEN [pc |-> "thrown", name |-> name, args |-> args, requests |-> <<>>,
          settled |-> <<>>, outcome |-> <<UnknownToolError(name)>>]
    ELSE IF Destructures(name) /\ ~args.defined
    THEN [pc |-> "thrown", name |-> name, args |-> args, requests |-> <<>>,
          settled |-> <<>>, outcome |-> <<DestructureError>>]
    ELSE [pc |-> "awaiting", name |-> name, args |-> args,
          requests |-> <<AxiosGet(name, args.props)>>,
          settled |-> <<>>, outcome |-> <<>>]

\* the handler after axios.get resolved: the try block's return
Resolved(call, response) ==
    [call EXCEPT !.pc = "returned",
                 !.settled = <<[fulfilled |-> TRUE, value |-> response]>>,
                 !.outcome = <<SuccessResult(response)>>]

\* a catch block that issues the request again and keeps waiting
RejectedWithRetry(call, error) ==
    [call EXCEPT !.requests = Append(@, @[1])]

\* the handler after axios.get rejected: the catch block
Rejected(call, error) ==
    IF IsAxiosError(error)
    THEN [call EXCEPT !.pc = "returned",
                      !.settled = <<[fulfilled |-> FALSE, value |-> error]>>,
                      !.outcome = <<ErrorResult(error)>>]
    ELSE [call EXCEPT !.pc = "thrown",
                      !.settled = <<[fulfilled |-> FALSE, value |-> error]>>,
                      !.outcome = <<error>>]

-----------------------------------------------------------------------------
(* Inputs *)

UnknownNames == {"not_a_tool", "BUS_ARRIVAL"}
ToolNames == CaseLabels \cup UnknownNames

BusArrivalArgs ==
    { Arguments(EmptyObject),
      Arguments([busStopCode |-> "83139"]),
      Arguments([busStopCode |-> "83139", serviceNo |-> "15"]),
      Arguments([busStopCode |-> "83139", serviceNo |-> ""]) }

TrainLineArgs == { Arguments(EmptyObject), Arguments([trainLine |-> "NSL"]) }

\* the argument mappings a client sends with a tool name
ArgsFor(name) ==
    {NoArguments} \cup
    (CASE name = "bus_arrival" -> BusArrivalArgs
       [] name \in UnknownNames -> {}
       [] OTHER -> TrainLineArgs)

BodyEmpty == Obj(<< Member("value", Arr(<<>>)) >>)
BodyServices ==
    Obj(<< Member("odata.metadata", Str("m")),
           Member("value", Arr(<< Obj(<< Member("ServiceNo", Str("15")) >>) >>)) >>)
BodyInvalidKey == Obj(<< Member("Message", Str("Invalid Account Key")) >>)
BodyFault == Obj(<< Member("fault", Str("x")) >>)

\* 2xx responses: the body the upstream gives depends on the endpoint asked
ResponsesFor(call) ==
    IF call.name = "bus_arrival"
    THEN { [status |-> 200, data |-> BodyServices] }
    ELSE { [status |-> 200, data |-> BodyEmpty] }

\* what axios.get can reject with
Errors ==
    { [isAxiosError |-> TRUE, message |-> "Request failed with status code 401",
       response |-> [status |-> 401, data |-> BodyInvalidKey]],
      [isAxiosError |-> TRUE, message |-> "Request failed with status code 500",
       response |-> [status |-> 500, data |-> BodyFault]],
      [isAxiosError |-> TRUE, message |-> "connect ECONNREFUSED"],
      [isAxiosError |-> FALSE, name |-> "TypeError", message |-> "Invalid URL"] }

Environments == { [LTA_API_KEY |-> "key"] }

-----------------------------------------------------------------------------
(* Actions *)

Init ==
    /\ calls = EmptyBag
    /\ listed = <<>>
    /\ env \in Environments

\* a list-tools request is answered
ListTools ==
    /\ listed' = <<ListToolsResult>>
    /\ UNCHANGED <<calls, env>>

\* a handler that waits for the call in flight to end before it starts
CallToolSerialized(name, args) ==
    /\ BagCardinality(calls) < MaxCalls
    /\ \A c \in BagToSet(calls) : c.pc # "awaiting"
    /\ calls' = calls (+) SetToBag({Started(name, args)})
    /\ UNCHANGED <<listed, env>>

\* a call-tool request arrives and its handler runs up to the await or a throw
CallTool(name, args) ==
    /\ BagCardinality(calls) < MaxCalls
    /\ calls' = calls (+) SetToBag({Started(name, args)})
    /\ UNCHANGED <<listed, env>>

\* the upstream answers 2xx: the awaited promise of `call` resolves
AxiosResolve(call, response) ==
    /\ BagIn(call, calls)
    /\ call.pc = "awaiting"
    /\ calls' = (calls (-) SetToBag({call})) (+) SetToBag({Resolved(call, response)})
    /\ UNCHANGED <<listed, env>>

\* the awaited promise of `call` rejects
AxiosReject(call, error) ==
    /\ BagIn(call, calls)
    /\ call.pc = "awaiting"
    /\ calls' = (calls (-) SetToBag({call})) (+) SetToBag({Rejected(call, error)})
    /\ UNCHANGED <<listed, env>>

Next ==
    \/ ListTools
    \/ \E name \in ToolNames : \E args \in ArgsFor(name) : CallTool(name, args)
    \/ \E call \in BagToSet(calls) : \E response \in ResponsesFor(call) : AxiosResolve(call, response)
    \/ \E call \in BagToSet(calls) : \E error \in Errors : AxiosReject(call, error)

Spec == Init /\ [][Next]_vars

-----------------------------------------------------------------------------
(* Vocabulary of the properties *)

CallSet == BagToSet(calls)

Returned(c) == c.pc = "returned"
Thrown(c) == c.pc = "thrown"
Done(c) == Returned(c) \/ Thrown(c)

\* the value the handler returned or threw
OutcomeOf(c) == c.outcome[1]

\* the isError flag is present on a returned value
Flagged(r) == "isError" \in DOMAIN r

\* the names the catalog registers
RegisteredNames == { ToolCatalog[i].name : i \in 1..Len(ToolCatalog) }

NoArgumentTools == {"train_alerts", "carpark_availability", "travel_times", "traffic_incidents"}

\* t occurs in s
Contains(s, t) ==
    \E i \in 1..(Len(s) - Len(t) + 1) : SubSeq(s, i, i + Len(t) - 1) = t

\* axios.get settled by rejecting with an axios error: a non-2xx status or
\* no response at all
HttpFailed(c) ==
    /\ c.settled # <<>>
    /\ ~c.settled[1].fulfilled
    /\ c.settled[1].value.isAxiosError

HttpSucceeded(c) == c.settled # <<>> /\ c.settled[1].fulfilled

\* the upstream answered with a body that has a Message string
UpstreamMessages(error) ==
    IF "response" \in DOMAIN error /\ error.response.data.t = "obj"
    THEN { error.response.data.members[i].v.s :
             i \in { j \in 1..Len(error.response.data.members) :
                       /\ error.response.data.members[j].k = "Message"
                       /\ error.response.data.members[j].v.t = "str" } }
    ELSE {}

\* the query parameters of a request, none when the configuration has no params
ParamsOf(request) ==
    IF "params" \in DOMAIN request.config THEN request.config.params ELSE EmptyObject

\* the path each tool is bound to
ExpectedUrl(name) ==
    CASE name = "bus_arrival" -> "https://datamall2.mytransport.sg/ltaodataservice/v3/BusArrival"
      [] name = "station_crowding" -> "https://datamall2.mytransport.sg/ltaodataservice/PCDRealTime"
      [] name = "train_alerts" -> "https://datamall2.mytransport.sg/ltaodataservice/TrainServiceAlerts"
      [] name = "carpark_availability" -> "https://datamall2.mytransport.sg/ltaodataservice/CarParkAvailabilityv2"
      [] name = "travel_times" -> "https://datamall2.mytransport.sg/ltaodataservice/EstTravelTimes"
      [] name = "traffic_incidents" -> "https://datamall2.mytransport.sg/ltaodataservice/TrafficIncidents"
      [] name = "station_crowd_forecast" -> "https://datamall2.mytransport.sg/ltaodataservice/PCDForecast"
      [] OTHER -> ""

\* the two bodies of the model as JSON.stringify(body, null, 2) prints them
ExpectedPretty(data) ==
    CASE data = BodyEmpty -> "{\n  \"value\": []\n}"
      [] data = BodyServices ->
            "{\n  \"odata.metadata\": \"m\",\n  \"value\": [\n    {\n      \"ServiceNo\": \"15\"\n    }\n  ]\n}"
      [] OTHER -> "?"

-----------------------------------------------------------------------------
(* C1: a call-tool request whose name is not one of the seven registered  *)
(* names ends with a MethodNotFound exception whose message contains the  *)
(* name; it returns no result, enters no handler and issues no request.   *)
C1_UnknownToolThrows ==
    \A c \in CallSet :
        c.name \notin RegisteredNames =>
            /\ Thrown(c)
            /\ c.requests = <<>>
            /\ c.settled = <<>>
            /\ OutcomeOf(c).name = "McpError"
            /\ OutcomeOf(c).code = "MethodNotFound"
            /\ Contains(OutcomeOf(c).message, c.name)

C1_Witness ==
    \E c \in CallSet : c.name = "not_a_tool" /\ Thrown(c)

(* C2: for each tool, when the GET fails at the HTTP layer the call        *)
(* returns a result with isError = true and one text block whose text is  *)
(* "LTA API error: " followed by the upstream Message when one was        *)
(* supplied and by the transport error text otherwise.                    *)
C2_HttpFailureIsFlaggedResult ==
    \A c \in CallSet :
        HttpFailed(c) =>
            LET error == c.settled[1].value
                r == OutcomeOf(c)
            IN /\ Returned(c)
               /\ Flagged(r) /\ r.isError = TRUE
               /\ Len(r.content) = 1
               /\ r.content[1].type = "text"
               /\ IF UpstreamMessages(error) # {}
                  THEN \E m \in UpstreamMessages(error) :
                          r.content[1].text = "LTA API error: " \o m
                  ELSE r.content[1].text = "LTA API error: " \o error.message
               /\ (error.message = "Request failed with status code 401"
                     => r.content[1].text = "LTA API error: Invalid Account Key")

C2_Witness ==
    /\ \E c \in CallSet :
          /\ HttpFailed(c) /\ Returned(c)
          /\ c.name = "station_crowd_forecast"
          /\ UpstreamMessages(c.settled[1].value) # {}
    /\ \E c \in CallSet :
          /\ HttpFailed(c) /\ Returned(c)
          /\ "response" \notin DOMAIN c.settled[1].value

(* C3: a missing required argument is signaled as an error and never      *)
(* forwarded: no request goes out whose BusStopCode or TrainLine is empty *)
(* or undefined.                                                          *)
C3_MissingRequiredNeverForwarded ==
    \A c \in CallSet :
        \A n \in 1..Len(c.requests) :
            \A k \in {"BusStopCode", "TrainLine"} \cap DOMAIN ParamsOf(c.requests[n]) :
                ParamsOf(c.requests[n])[k] \notin {JsUndefined, JsNull, ""}

(* C4: a returned result holds exactly one text block, and the isError    *)
(* flag is present exactly when the HTTP call failed; on a 2xx response   *)
(* the text is the pretty-printed body and there is no isError field.     *)
C4_ResultEnvelope ==
    \A c \in CallSet :
        Returned(c) =>
            LET r == OutcomeOf(c)
            IN /\ Len(r.content) = 1
               /\ r.content[1].type = "text"
               /\ Flagged(r) <=> HttpFailed(c)
               /\ HttpSucceeded(c) =>
                     /\ DOMAIN r = {"content"}
                     /\ r.content[1].text = ExpectedPretty(c.settled[1].value.data)

C4_Witness ==
    /\ \E c \in CallSet :
          /\ Returned(c) /\ HttpSucceeded(c)
          /\ c.settled[1].value.data = BodyServices
    /\ \E c \in CallSet : Returned(c) /\ HttpFailed(c)

(* C5, as stated: the bus_arrival request carries BusStopCode equal to    *)
(* the busStopCode argument, and ServiceNo, equal to the serviceNo        *)
(* argument, exactly when serviceNo is present in the argument mapping;   *)
(* no other parameter is sent.                                            *)
C5_ServiceNoIffPresent ==
    \A c \in CallSet :
        c.name = "bus_arrival" =>
            \A n \in 1..Len(c.requests) :
                LET params == ParamsOf(c.requests[n])
                IN /\ DOMAIN params \subseteq {"BusStopCode", "ServiceNo"}
                   /\ "BusStopCode" \in DOMAIN params
                   /\ params["BusStopCode"] = Get(c.args.props, "busStopCode")
                   /\ "ServiceNo" \in DOMAIN params <=> "serviceNo" \in DOMAIN c.args.props
                   /\ "ServiceNo" \in DOMAIN params
                         => params["ServiceNo"] = c.args.props["serviceNo"]

(* C5, amended: ServiceNo is carried, equal to the serviceNo argument,    *)
(* exactly when serviceNo is present with a truthy value (not the empty   *)
(* string); BusStopCode is the busStopCode argument and no other          *)
(* parameter is sent.                                                     *)
C5_ServiceNoIffTruthy ==
    \A c \in CallSet :
        c.name = "bus_arrival" =>
            \A n \in 1..Len(c.requests) :
                LET params == ParamsOf(c.requests[n])
                    serviceNo == Get(c.args.props, "serviceNo")
                IN /\ DOMAIN params \subseteq {"BusStopCode", "ServiceNo"}
                   /\ "BusStopCode" \in DOMAIN params
                   /\ params["BusStopCode"] = Get(c.args.props, "busStopCode")
                   /\ "ServiceNo" \in DOMAIN params
                         <=> ("serviceNo" \in DOMAIN c.args.props
                              /\ serviceNo \notin {JsUndefined, JsNull, ""})
                   /\ "ServiceNo" \in DOMAIN params => params["ServiceNo"] = serviceNo

C5_Witness ==
    /\ \E c \in CallSet :
          /\ c.name = "bus_arrival" /\ Len(c.requests) = 1
          /\ c.args.props = [busStopCode |-> "83139", serviceNo |-> "15"]
          /\ ParamsOf(c.requests[1]) = [BusStopCode |-> "83139", ServiceNo |-> "15"]
    /\ \E c \in CallSet :
          /\ c.name = "bus_arrival" /\ Len(c.requests) = 1
          /\ c.args.props = [busStopCode |-> "83139", serviceNo |-> ""]

(* C6, as stated: every invocation of a known tool performs exactly one   *)
(* GET, to the tool's own path, whatever the arguments and the upstream   *)
(* outcome; none completes with zero or more than one request.            *)
C6_ExactlyOneRequest ==
    \A c \in CallSet :
        c.name \in RegisteredNames =>
            /\ Len(c.requests) = 1
            /\ c.requests[1].method = "GET"
            /\ c.requests[1].url = ExpectedUrl(c.name)

(* C6, amended: an invocation of a known tool performs exactly one GET,   *)
(* to the tool's own path, and never a second one, except that            *)
(* bus_arrival, station_crowding and station_crowd_forecast called with   *)
(* no argument mapping at all throw before any request and perform none.  *)
C6_OneRequestUnlessNoArguments ==
    \A c \in CallSet :
        c.name \in RegisteredNames =>
            IF c.name \notin NoArgumentTools /\ ~c.args.defined
            THEN Thrown(c) /\ c.requests = <<>>
            ELSE /\ Len(c.requests) = 1
                 /\ c.requests[1].method = "GET"
                 /\ c.requests[1].url = ExpectedUrl(c.name)

C6_Witness ==
    /\ \E c \in CallSet :
          /\ c.name = "carpark_availability" /\ HttpFailed(c)
          /\ Done(c) /\ Len(c.requests) = 1
    /\ \E c \in CallSet :
          /\ c.name = "station_crowding" /\ ~c.args.defined
          /\ Thrown(c) /\ c.requests = <<>>

(* C7: a no-argument tool called with an empty or an absent argument      *)
(* mapping reaches the HTTP call, sends no query parameter and succeeds   *)
(* when the upstream answers 2xx; supplied arguments are not forwarded.   *)
C7_NoArgumentTools ==
    \A c \in CallSet :
        c.name \in NoArgumentTools =>
            /\ Len(c.requests) = 1
            /\ c.requests[1].url = ExpectedUrl(c.name)
            /\ "params" \notin DOMAIN c.requests[1].config
            /\ DOMAIN ParamsOf(c.requests[1]) = {}
            /\ HttpSucceeded(c) => (Returned(c) /\ ~Flagged(OutcomeOf(c)))

C7_Witness ==
    /\ \E c \in CallSet :
          /\ c.name = "train_alerts" /\ ~c.args.defined
          /\ HttpSucceeded(c) /\ Returned(c)
    /\ \E c \in CallSet :
          /\ c.name = "traffic_incidents" /\ c.args = Arguments([trainLine |-> "NSL"])
          /\ Len(c.requests) = 1

(* C8: whatever call-tool and list-tools requests came before, a          *)
(* list-tools request returns the same catalog: seven descriptors with    *)
(* distinct names in the fixed order, the trainLine enum of the two       *)
(* train-line tools being the 11 codes; listing issues no HTTP request.   *)
C8_StaticCatalog ==
    /\ [](listed # <<>> =>
            LET tools == listed[1].tools
            IN /\ Len(tools) = 7
               /\ [i \in 1..7 |-> tools[i].name] =
                     <<"bus_arrival", "station_crowding", "train_alerts",
                       "carpark_availability", "travel_times", "traffic_incidents",
                       "station_crowd_forecast">>
               /\ \A i, j \in 1..7 : i # j => tools[i].name # tools[j].name
               /\ \A i \in {2, 7} :
                     tools[i].inputSchema.properties.trainLine.enum =
                        <<"CCL", "CEL", "CGL", "DTL", "EWL", "NEL", "NSL", "BPL",
                          "SLRT", "PLRT", "TEL">>)
    /\ [][listed' # listed => calls' = calls]_vars

C8_Witness ==
    /\ listed # <<>>
    /\ \E c \in CallSet : c.pc = "awaiting"
    /\ \E c \in CallSet : HttpFailed(c)

(* C9: every finished invocation ended as exactly one of an unflagged     *)
(* result, a flagged result or an exception; a flagged result only comes  *)
(* from a request that was issued and failed at the HTTP layer, and a     *)
(* failure of any other kind (an absent argument mapping, an error that   *)
(* is not an HTTP error) ends as a thrown exception.                      *)
C9_ErrorChannels ==
    \A c \in CallSet :
        /\ Done(c) => Len(c.outcome) = 1
        /\ Returned(c) => "content" \in DOMAIN OutcomeOf(c)
        /\ Thrown(c) => "content" \notin DOMAIN OutcomeOf(c)
        /\ (Returned(c) /\ Flagged(OutcomeOf(c))) => (Len(c.requests) = 1 /\ HttpFailed(c))
        /\ (c.settled # <<>> /\ ~c.settled[1].fulfilled /\ ~c.settled[1].value.isAxiosError)
              => (Thrown(c) /\ OutcomeOf(c) = c.settled[1].value)
        /\ (c.name \in RegisteredNames \ NoArgumentTools /\ ~c.args.defined)
              => (Thrown(c) /\ OutcomeOf(c).name = "TypeError")

C9_Witness ==
    /\ \E c \in CallSet : c.name = "bus_arrival" /\ ~c.args.defined /\ Thrown(c)
    /\ \E c \in CallSet :
          /\ c.settled # <<>> /\ ~c.settled[1].fulfilled
          /\ ~c.settled[1].value.isAxiosError /\ Thrown(c)

(* C10: invocations in flight together are independent: two invocations   *)
(* with the same name, arguments and upstream answer have the same        *)
(* outcome whatever else is in flight or failed, and a call that hangs    *)
(* keeps no other call from being answered and no request from being      *)
(* accepted.                                                              *)
C10_Independence ==
    /\ \A c, d \in CallSet :
          (c.name = d.name /\ c.args = d.args /\ c.settled = d.settled)
             => (c.pc = d.pc /\ c.outcome = d.outcome /\ c.requests = d.requests)
    /\ \A c \in CallSet :
          c.pc = "awaiting" =>
             /\ ENABLED (\E response \in ResponsesFor(c) : AxiosResolve(c, response))
             /\ ENABLED (\E error \in Errors : AxiosReject(c, error))
    /\ BagCardinality(calls) < MaxCalls =>
          \A name \in ToolNames : \A args \in ArgsFor(name) : ENABLED CallTool(name, args)
    /\ ENABLED ListTools

C10_Witness ==
    \E c, d \in CallSet :
        /\ c.pc = "awaiting"
        /\ d.name = c.name /\ d.args = c.args
        /\ HttpFailed(d) /\ Returned(d)

=============================================================================
